---------------------------- MODULE Spec2Model ----------------------------
(***************************************************************************)
(* pg_variables: session variables grouped in packages, with transactional *)
(* variables whose states are versioned per (sub)transaction level.        *)
(*                                                                         *)
(* The model follows src/pg_variables.c.  Objects (packages, variables)    *)
(* are identified by name: a hash entry that is removed and entered again  *)
(* under the same name occupies the same slot, so a reference kept to the  *)
(* old entry then denotes the new one.  A reference to an entry that is    *)
(* not in its hash table is dangling; using it, reading the head of an     *)
(* empty state list, and deleting a memory context twice are undefined     *)
(* behaviour.  Every outcome modelled is a transition: the backend may     *)
(* crash; a call that used a dangling reference or an empty state list may *)
(* also give up with the module as it was; a call after a double delete,   *)
(* and a transaction callback after either, may also run on (writes        *)
(* through a dangling reference are then lost).                            *)
(***************************************************************************)
EXTENDS Integers, Sequences, FiniteSets, TLC

(* ------------------------------ bounds -------------------------------- *)

\* Deepest transaction nesting level the host is driven to.
MaxLevel == 2

\* Longest state list an object may grow to before writers are held back.
MaxHist == 3

\* Longest list of changes a frame may grow to.
MaxList == 2

\* The same bound while the history variables are recorded.
MaxListTx == 1

\* Package names, variable names, scalar values and record keys used as
\* inputs.
Pkgs == {"p"}
Names == {"x"}
Vals == {1, 2}
Keys == {1}

\* Value types: one scalar type and the record type (RECORDOID).
INT4OID == "int4"
RECORDOID == "record"

\* Fixed visiting order standing for hash_seq_search over a variables hash.
NameOrder == <<"x">>

NULL == "NULL"
TRANS_PACKAGE == "TRANS_PACKAGE"
TRANS_VARIABLE == "TRANS_VARIABLE"
RELEASE_SAVEPOINT == "RELEASE_SAVEPOINT"
ROLLBACK_TO_SAVEPOINT == "ROLLBACK_TO_SAVEPOINT"

(* ------------------------------ state --------------------------------- *)

VARIABLES
    packagesHash,   \* TRUE iff packagesHash (and ModuleContext) exist
    packages,       \* per name: the Package entry of packagesHash
    changesStack,   \* list of frames, head = current level; <<>> = NULL
    LastPackage,    \* cached package name or NULL
    LastVariable,   \* cached variable reference or NoVarRef
    nestLevel,      \* GetCurrentTransactionNestLevel()
    crashed,        \* the backend died on undefined behaviour
    res,            \* what the last call or transaction event returned
    snap,           \* history: per level, the record of its last run
    removedNow      \* history: packages removed by the call just made

vars == <<packagesHash, packages, changesStack, LastPackage, LastVariable,
          nestLevel, crashed, res, snap, removedNow>>

(* --------------------------- data structures -------------------------- *)

\* One state of an object (TransState / VarState / PackState).  Packages
\* use only is_valid and level.
ZeroState == [is_valid |-> FALSE, level |-> 0,
              is_null |-> FALSE, value |-> 0, rhash |-> {}]

\* What the head of an empty state list reads as (memory that is not a state).
GarbageState == [is_valid |-> FALSE, level |-> -1,
                 is_null |-> TRUE, value |-> 0, rhash |-> {}]

\* A slot of a variables hash table.
NoVariable == [found |-> FALSE, typid |-> NULL, is_transactional |-> FALSE,
               states |-> <<>>]

EmptyHTAB == [n \in Names |-> NoVariable]

\* A slot of the packages hash table.
NoPackage == [found |-> FALSE, states |-> <<>>, hctxRegular |-> FALSE,
              varHashRegular |-> EmptyHTAB, varHashTransact |-> EmptyHTAB]

NoVarRef == [package |-> NULL, name |-> NULL, is_transactional |-> FALSE]

EmptyFrame == [changedVarsList |-> <<>>, changedPacksList |-> <<>>]

PackObject(p) == [type |-> TRANS_PACKAGE, package |-> p, name |-> NULL]
VarObject(p, n) == [type |-> TRANS_VARIABLE, package |-> p, name |-> n]

\* The module's data as one record, so that the C functions compose.
\* ub: a dangling reference or a state that is none was used; df: a memory
\* context was deleted twice; af: an Assert did not hold.
Module == [packagesHash |-> packagesHash, packages |-> packages,
           changesStack |-> changesStack, LastPackage |-> LastPackage,
           LastVariable |-> LastVariable, ub |-> FALSE, df |-> FALSE,
           af |-> FALSE]


(* ------------------------------ errors -------------------------------- *)

NoError == "ok"
\* "unrecognized package"
ErrUnrecognizedPackage == "unrecognized package"
\* "unrecognized variable"
ErrUnrecognizedVariable == "unrecognized variable"
\* "variable already created as [NOT ]TRANSACTIONAL"
ErrAlreadyCreated == "already created as TRANSACTIONAL or NOT TRANSACTIONAL"
\* "variable requires <type> value"
ErrRequiresValue == "requires value"

\* The value v under the name F gives it: a local variable of a C function.
Bind(v, F(_)) == F(v)

(* -------------------- state lists of transactional objects ------------ *)

\* Whether the hash entry the reference denotes is in its hash table.
ObjectFound(m, o) ==
    IF o.type = TRANS_PACKAGE
    THEN m.packages[o.package].found
    ELSE m.packages[o.package].found
         /\ m.packages[o.package].varHashTransact[o.name].found

GetStateStorage(m, o) ==
    IF o.type = TRANS_PACKAGE
    THEN m.packages[o.package].states
    ELSE m.packages[o.package].varHashTransact[o.name].states

\* Writes through a dangling reference land in freed memory and are lost.
SetStateStorage(m, o, sts) ==
    IF ~ObjectFound(m, o)
    THEN m
    ELSE IF o.type = TRANS_PACKAGE
         THEN [m EXCEPT !.packages[o.package].states = sts]
         ELSE [m EXCEPT !.packages[o.package].varHashTransact[o.name].states = sts]

\* dlist_head_element of the state list; on an empty list it is no state.
GetActualState(m, o) ==
    IF GetStateStorage(m, o) = <<>> THEN GarbageState
    ELSE Head(GetStateStorage(m, o))

\* Using the head state of o is undefined when o dangles or has no state.
Touch(m, o) ==
    [m EXCEPT !.ub = @ \/ ~ObjectFound(m, o) \/ GetStateStorage(m, o) = <<>>]

SetActualState(m, o, st) ==
    IF GetStateStorage(m, o) = <<>> THEN Touch(m, o)
    ELSE SetStateStorage(m, o, <<st>> \o Tail(GetStateStorage(m, o)))

SetValid(m, o, b) ==
    SetActualState(m, o, [GetActualState(m, o) EXCEPT !.is_valid = b])

SetLevel(m, o, l) ==
    SetActualState(m, o, [GetActualState(m, o) EXCEPT !.level = l])

isObjectChangedInCurrentTrans(m, o) ==
    IF m.changesStack = <<>> THEN FALSE
    ELSE GetActualState(m, o).level = nestLevel

isObjectChangedInUpperTrans(m, o) ==
    IF Len(GetStateStorage(m, o)) >= 2
    THEN GetStateStorage(m, o)[2].level = nestLevel - 1
    ELSE FALSE

\* The new state is zero-allocated (level 0); a variable's value is copied.
createSavepoint(m, o) ==
    LET prevState == GetActualState(m, o)
        newState == IF o.type = TRANS_PACKAGE
                    THEN [ZeroState EXCEPT !.is_valid = prevState.is_valid]
                    ELSE [prevState EXCEPT !.level = 0]
    IN SetStateStorage(Touch(m, o), o, <<newState>> \o GetStateStorage(m, o))

\* dlist_delete of the k-th state (1 = head).
removeState(m, o, k) ==
    LET sts == GetStateStorage(m, o)
    IN IF k > Len(sts) THEN Touch(m, o)
       ELSE SetStateStorage(m, o,
                [i \in 1..(Len(sts) - 1) |-> IF i < k THEN sts[i] ELSE sts[i + 1]])

(* ----------------------------- changesStack --------------------------- *)

pushChangesStack(m) ==
    [m EXCEPT !.changesStack = <<EmptyFrame>> \o @]

\* prepareChangesStack that pushes one frame whatever the nesting level.
prepareChangesStackOneFrame(m) ==
    IF m.changesStack = <<>>
    THEN [m EXCEPT !.changesStack = <<EmptyFrame>>]
    ELSE m

prepareChangesStack(m) ==
    IF m.changesStack = <<>>
    THEN [m EXCEPT !.changesStack = [i \in 1..nestLevel |-> EmptyFrame]]
    ELSE m

\* addToChangesStack with a plausible bug: a frame is pushed at every
\* registration, whether the stack exists or not.
addToChangesStackPushesFrame(m, o) ==
    LET m1 == pushChangesStack(prepareChangesStack(m))
    IN IF ~isObjectChangedInCurrentTrans(m1, o)
       THEN LET listed ==
                  IF o.type = TRANS_PACKAGE
                  THEN [m1 EXCEPT !.changesStack[1].changedPacksList = <<o>> \o @]
                  ELSE [m1 EXCEPT !.changesStack[1].changedVarsList = <<o>> \o @]
            IN SetLevel(Touch(listed, o), o, nestLevel)
       ELSE m1

addToChangesStack(m, o) ==
    LET m1 == prepareChangesStack(m)
    IN IF ~isObjectChangedInCurrentTrans(m1, o)
       THEN LET listed ==
                  IF o.type = TRANS_PACKAGE
                  THEN [m1 EXCEPT !.changesStack[1].changedPacksList = <<o>> \o @]
                  ELSE [m1 EXCEPT !.changesStack[1].changedVarsList = <<o>> \o @]
            IN SetLevel(Touch(listed, o), o, nestLevel)
       ELSE m1

RECURSIVE DropFirst(_, _)
DropFirst(list, o) ==
    IF list = <<>> THEN <<>>
    ELSE IF Head(list) = o THEN Tail(list)
    ELSE <<Head(list)>> \o DropFirst(Tail(list), o)

RECURSIVE DropPackageVars(_, _)
DropPackageVars(list, p) ==
    IF list = <<>> THEN <<>>
    ELSE IF Head(list).package = p THEN DropPackageVars(Tail(list), p)
    ELSE <<Head(list)>> \o DropPackageVars(Tail(list), p)

\* Unlists the package and its variables from the head frame only.
removeFromChangedVars(m, p) ==
    [m EXCEPT !.changesStack[1].changedVarsList = DropPackageVars(@, p),
              !.changesStack[1].changedPacksList = DropFirst(@, PackObject(p))]

(* ------------------------ packages and variables ---------------------- *)

ensurePackagesHashExists(m) == [m EXCEPT !.packagesHash = TRUE]

\* A new, empty variables hash in a new memory context.
makePackHTAB(m, p, is_trans) ==
    IF is_trans
    THEN [m EXCEPT !.packages[p].varHashTransact = EmptyHTAB]
    ELSE [m EXCEPT !.packages[p].varHashRegular = EmptyHTAB,
                   !.packages[p].hctxRegular = TRUE]

removeObject(m, o) ==
    IF o.type = TRANS_PACKAGE
    THEN LET m1 == IF m.changesStack # <<>>
                   THEN removeFromChangedVars(m, o.package)
                   ELSE m
         IN [m1 EXCEPT !.packages[o.package] = NoPackage]
    ELSE IF m.packages[o.package].found
         THEN [m EXCEPT !.packages[o.package].varHashTransact[o.name] = NoVariable]
         ELSE [m EXCEPT !.ub = TRUE]

\* rollbackSavepoint with a plausible bug: the hash of regular variables is
\* made anew for every package rolled back, removed or not.
rollbackSavepointNewHTAB(m, o) ==
    LET state == GetActualState(m, o)
        m0 == Touch(m, o)
    IN IF o.type = TRANS_PACKAGE
       THEN IF ~state.is_valid
            THEN makePackHTAB(removeState(m0, o, 1), o.package, FALSE)
            ELSE makePackHTAB(m0, o.package, FALSE)
       ELSE LET m1 == removeState(m0, o, 1)
            IN IF GetStateStorage(m1, o) = <<>>
               THEN removeObject(m1, o)
               ELSE m1

rollbackSavepoint(m, o) ==
    LET state == GetActualState(m, o)
        m0 == Touch(m, o)
    IN IF o.type = TRANS_PACKAGE
       THEN IF ~state.is_valid
            THEN makePackHTAB(removeState(m0, o, 1), o.package, FALSE)
            ELSE m0
       ELSE LET m1 == removeState(m0, o, 1)
            IN IF GetStateStorage(m1, o) = <<>>
               THEN removeObject(m1, o)
               ELSE m1

\* releaseSavepoint with a plausible bug: the state dropped is the current
\* one, not the one before it.
releaseSavepointDropsHead(m, o) ==
    LET m0 == [Touch(m, o) EXCEPT
                  !.af = @ \/ GetActualState(m, o).level # nestLevel]
        m1 == IF Len(GetStateStorage(m0, o)) >= 2
              THEN removeState(m0, o, 1)
              ELSE m0
    IN IF ~GetActualState(m1, o).is_valid /\ Len(GetStateStorage(m1, o)) < 2
       THEN removeObject(m1, o)
       ELSE SetLevel(m1, o, GetActualState(m1, o).level - 1)

releaseSavepoint(m, o) ==
    LET m0 == [Touch(m, o) EXCEPT
                  !.af = @ \/ GetActualState(m, o).level # nestLevel]
        m1 == IF Len(GetStateStorage(m0, o)) >= 2
              THEN removeState(m0, o, 2)
              ELSE m0
    IN IF ~GetActualState(m1, o).is_valid /\ Len(GetStateStorage(m1, o)) < 2
       THEN removeObject(m1, o)
       ELSE SetLevel(m1, o, GetActualState(m1, o).level - 1)


\* Re-creation of a removed package: every transactional variable left in
\* it gets a savepoint at the current level and is marked removed.
RECURSIVE markVarsRemoved(_, _, _)
markVarsRemoved(m, p, order) ==
    IF order = <<>> THEN m
    ELSE LET n == Head(order)
             o == VarObject(p, n)
             m1 == IF ~isObjectChangedInCurrentTrans(m, o)
                   THEN addToChangesStack(createSavepoint(m, o), o)
                   ELSE m
         IN IF m.packages[p].varHashTransact[n].found
            THEN markVarsRemoved(SetValid(Touch(m1, o), o, FALSE), p, Tail(order))
            ELSE markVarsRemoved(m, p, Tail(order))

\* getPackageByName with a plausible bug: a lookup that does not create
\* takes the package found without looking at its state.
getPackageByNameAnyState(m, p, create, strict) ==
    LET o == PackObject(p)
        miss == [m |-> m, package |-> NULL,
                 err |-> IF strict THEN ErrUnrecognizedPackage ELSE NoError]
    IN IF ~create /\ ~m.packagesHash THEN miss
       ELSE LET m0 == IF create THEN ensurePackagesHashExists(m) ELSE m
            IN IF m0.packages[p].found
               THEN IF GetActualState(m0, o).is_valid \/ ~create
                    THEN [m |-> m0, package |-> p, err |-> NoError]
                    ELSE IF create
                    THEN LET m1 == IF ~isObjectChangedInCurrentTrans(m0, o)
                                   THEN addToChangesStack(createSavepoint(m0, o), o)
                                   ELSE m0
                             m2 == SetValid(Touch(m1, o), o, TRUE)
                             m3 == makePackHTAB(m2, p, FALSE)
                         IN [m |-> markVarsRemoved(m3, p, NameOrder),
                             package |-> p, err |-> NoError]
                    ELSE [miss EXCEPT !.m = Touch(m0, o)]
               ELSE IF ~create THEN miss
               ELSE LET m1 == [m0 EXCEPT !.packages[p] =
                                  [found |-> TRUE,
                                   states |-> <<[ZeroState EXCEPT !.is_valid = TRUE]>>,
                                   hctxRegular |-> TRUE,
                                   varHashRegular |-> EmptyHTAB,
                                   varHashTransact |-> EmptyHTAB]]
                    IN [m |-> addToChangesStack(m1, o),
                        package |-> p, err |-> NoError]

\* Result: the module afterwards, the package found (or NULL), the error.
getPackageByName(m, p, create, strict) ==
    LET o == PackObject(p)
        miss == [m |-> m, package |-> NULL,
                 err |-> IF strict THEN ErrUnrecognizedPackage ELSE NoError]
    IN IF ~create /\ ~m.packagesHash THEN miss
       ELSE LET m0 == IF create THEN ensurePackagesHashExists(m) ELSE m
            IN IF m0.packages[p].found
               THEN IF GetActualState(m0, o).is_valid
                    THEN [m |-> m0, package |-> p, err |-> NoError]
                    ELSE IF create
                    THEN LET m1 == IF ~isObjectChangedInCurrentTrans(m0, o)
                                   THEN addToChangesStack(createSavepoint(m0, o), o)
                                   ELSE m0
                             m2 == SetValid(Touch(m1, o), o, TRUE)
                             m3 == makePackHTAB(m2, p, FALSE)
                         IN [m |-> markVarsRemoved(m3, p, NameOrder),
                             package |-> p, err |-> NoError]
                    ELSE [miss EXCEPT !.m = Touch(m0, o)]
               ELSE IF ~create THEN miss
               ELSE LET m1 == [m0 EXCEPT !.packages[p] =
                                  [found |-> TRUE,
                                   states |-> <<[ZeroState EXCEPT !.is_valid = TRUE]>>,
                                   hctxRegular |-> TRUE,
                                   varHashRegular |-> EmptyHTAB,
                                   varHashTransact |-> EmptyHTAB]]
                    IN [m |-> addToChangesStack(m1, o),
                        package |-> p, err |-> NoError]

\* The slot of variable n of package p, regular hash first.
LookupVariable(m, p, n) ==
    IF m.packages[p].varHashRegular[n].found
    THEN m.packages[p].varHashRegular[n]
    ELSE m.packages[p].varHashTransact[n]

\* Head state of a variable slot.
VarActualState(v) == IF v.states = <<>> THEN GarbageState ELSE Head(v.states)

\* Result: the variable slot found (found = FALSE for NULL) and the error.
getVariableInternal(m, p, n, typid, strict) ==
    LET v == LookupVariable(m, p, n)
    IN IF v.found
       THEN IF v.typid # typid
            THEN [variable |-> v, err |-> ErrRequiresValue]
            ELSE IF ~VarActualState(v).is_valid /\ strict
            THEN [variable |-> v, err |-> ErrUnrecognizedVariable]
            ELSE [variable |-> v, err |-> NoError]
       ELSE [variable |-> NoVariable,
             err |-> IF strict THEN ErrUnrecognizedVariable ELSE NoError]

\* createVariableInternal with a plausible bug: the reverse check, that the
\* name is not in the hash table of the other kind, is left out.
createVariableInternalNoReverseCheck(m, p, n, typid, is_transactional) ==
    LET o == VarObject(p, n)
        pack == m.packages[p]
        own == IF is_transactional THEN pack.varHashTransact[n]
               ELSE pack.varHashRegular[n]
        fresh == [found |-> TRUE, typid |-> typid,
                  is_transactional |-> is_transactional,
                  states |-> <<[ZeroState EXCEPT
                                  !.is_null = (typid # RECORDOID)]>>]
    IN IF own.found /\ own.typid # typid
       THEN [m |-> m, err |-> ErrRequiresValue]
       ELSE IF is_transactional
       THEN LET m1 == IF own.found
                      THEN IF ~isObjectChangedInCurrentTrans(m, o)
                           THEN createSavepoint(m, o)
                           ELSE m
                      ELSE [m EXCEPT !.packages[p].varHashTransact[n] = fresh]
                m2 == SetValid(Touch(m1, o), o, TRUE)
            IN [m |-> addToChangesStack(m2, o), err |-> NoError]
       ELSE LET st == IF own.found THEN own ELSE fresh
                hd == [VarActualState(st) EXCEPT !.is_valid = TRUE]
            IN [m |-> [m EXCEPT
                         !.ub = @ \/ st.states = <<>>,
                         !.packages[p].varHashRegular[n] =
                            [st EXCEPT !.states = <<hd>> \o Tail(st.states)]],
                err |-> NoError]

\* Result: the module afterwards and the error.  The variable is then
\* slot n of the hash chosen by is_transactional.
createVariableInternal(m, p, n, typid, is_transactional) ==
    LET o == VarObject(p, n)
        pack == m.packages[p]
        other == IF is_transactional THEN pack.varHashRegular[n]
                 ELSE pack.varHashTransact[n]
        own == IF is_transactional THEN pack.varHashTransact[n]
               ELSE pack.varHashRegular[n]
        fresh == [found |-> TRUE, typid |-> typid,
                  is_transactional |-> is_transactional,
                  states |-> <<[ZeroState EXCEPT
                                  !.is_null = (typid # RECORDOID)]>>]
    IN IF other.found
       THEN [m |-> m, err |-> ErrAlreadyCreated]
       ELSE IF own.found /\ own.typid # typid
       THEN [m |-> m, err |-> ErrRequiresValue]
       ELSE IF is_transactional
       THEN LET m1 == IF own.found
                      THEN IF ~isObjectChangedInCurrentTrans(m, o)
                           THEN createSavepoint(m, o)
                           ELSE m
                      ELSE [m EXCEPT !.packages[p].varHashTransact[n] = fresh]
                m2 == SetValid(Touch(m1, o), o, TRUE)
            IN [m |-> addToChangesStack(m2, o), err |-> NoError]
       ELSE LET st == IF own.found THEN own ELSE fresh
                hd == [VarActualState(st) EXCEPT !.is_valid = TRUE]
            IN [m |-> [m EXCEPT
                         !.ub = @ \/ st.states = <<>>,
                         !.packages[p].varHashRegular[n] =
                            [st EXCEPT !.states = <<hd>> \o Tail(st.states)]],
                err |-> NoError]


\* All regular variables are freed with their memory context; deleting a
\* context that is already deleted is undefined.
removePackageInternal(m, p) ==
    LET o == PackObject(p)
        m0 == [m EXCEPT !.df = @ \/ ~m.packages[p].hctxRegular,
                        !.packages[p].hctxRegular = FALSE,
                        !.packages[p].varHashRegular = EmptyHTAB]
        m1 == IF ~isObjectChangedInCurrentTrans(m0, o)
              THEN addToChangesStack(createSavepoint(m0, o), o)
              ELSE m0
    IN SetValid(Touch(m1, o), o, FALSE)

(* ------------------------- transaction processing --------------------- *)

\* One element of a list of changes; the frame being processed is already
\* popped, so the head of changesStack is the parent level's frame.
processObject(m, o, action) ==
    IF ~ObjectFound(m, o)
    THEN [m EXCEPT !.ub = TRUE]
    ELSE IF action = ROLLBACK_TO_SAVEPOINT
    THEN rollbackSavepoint(m, o)
    ELSE LET m1 == IF o.type = TRANS_VARIABLE
                      /\ ~GetActualState(m, PackObject(o.package)).is_valid
                   THEN SetValid(Touch(Touch(m, PackObject(o.package)), o), o, FALSE)
                   ELSE m
         IN IF m1.changesStack = <<>> \/ isObjectChangedInUpperTrans(m1, o)
            THEN releaseSavepoint(m1, o)
            ELSE LET listed ==
                       IF o.type = TRANS_PACKAGE
                       THEN [m1 EXCEPT !.changesStack[1].changedPacksList = <<o>> \o @]
                       ELSE [m1 EXCEPT !.changesStack[1].changedVarsList = <<o>> \o @]
                 IN SetLevel(Touch(listed, o), o, GetActualState(listed, o).level - 1)

RECURSIVE processList(_, _, _)
processList(m, list, action) ==
    IF list = <<>> THEN m
    ELSE processList(processObject(m, Head(list), action), Tail(list), action)

\* Whether packagesHash has no entries.
NoEntries(m) == \A p \in Pkgs : ~m.packages[p].found

\* processChanges with a plausible bug: the packages of the frame are
\* processed before its variables.
processChangesPackagesFirst(m, action) ==
    Bind(processList(
             processList([m EXCEPT !.changesStack = Tail(@)],
                         Head(m.changesStack).changedPacksList, action),
             Head(m.changesStack).changedVarsList, action),
         LAMBDA m2 :
             IF NoEntries(m2)
             THEN [m2 EXCEPT !.packagesHash = FALSE, !.LastPackage = NULL,
                             !.LastVariable = NoVarRef, !.changesStack = <<>>]
             ELSE m2)

\* processChanges with a plausible bug: the reset of the module leaves
\* changesStack as it is.
processChangesKeepsStack(m, action) ==
    Bind(processList(
             processList([m EXCEPT !.changesStack = Tail(@)],
                         Head(m.changesStack).changedVarsList, action),
             Head(m.changesStack).changedPacksList, action),
         LAMBDA m2 :
             IF NoEntries(m2)
             THEN [m2 EXCEPT !.packagesHash = FALSE, !.LastPackage = NULL,
                             !.LastVariable = NoVarRef]
             ELSE m2)

processChanges(m, action) ==
    Bind(processList(
             processList([m EXCEPT !.changesStack = Tail(@)],
                         Head(m.changesStack).changedVarsList, action),
             Head(m.changesStack).changedPacksList, action),
         LAMBDA m2 :
             IF NoEntries(m2)
             THEN [m2 EXCEPT !.packagesHash = FALSE, !.LastPackage = NULL,
                             !.LastVariable = NoVarRef, !.changesStack = <<>>]
             ELSE m2)


(* ------------------------------ results ------------------------------- *)

\* What is visible of the module's data: per package whether it is in the
\* registry and valid, per variable of its transactional hash whether it is
\* there, whether a lookup sees it as valid, and then its value.
PackView(m, p) ==
    IF ~m.packages[p].found THEN "absent"
    ELSE IF GetActualState(m, PackObject(p)).is_valid THEN "valid"
    ELSE "invalid"

NoValue == [is_null |-> TRUE, value |-> 0, rhash |-> {}]

AbsentVar == [present |-> FALSE, valid |-> FALSE, typid |-> NULL,
              data |-> NoValue]

TVarView(m, p, n) ==
    LET v == m.packages[p].varHashTransact[n]
        st == VarActualState(v)
        valid == PackView(m, p) = "valid" /\ st.is_valid
    IN IF m.packages[p].found /\ v.found
       THEN [present |-> TRUE, valid |-> valid, typid |-> v.typid,
             data |-> IF valid
                      THEN [is_null |-> st.is_null, value |-> st.value,
                            rhash |-> st.rhash]
                      ELSE NoValue]
       ELSE AbsentVar

\* The listing query: the (package, variable, is_transactional) triples it
\* returns.  Packages and variables whose current state is not valid are
\* skipped.
get_packages_and_variables(m) ==
    IF ~m.packagesHash THEN {}
    ELSE {t \in Pkgs \X Names \X BOOLEAN :
             LET pack == m.packages[t[1]]
                 v == IF t[3] THEN pack.varHashTransact[t[2]]
                      ELSE pack.varHashRegular[t[2]]
             IN /\ pack.found
                /\ GetActualState(m, PackObject(t[1])).is_valid
                /\ v.found
                /\ VarActualState(v).is_valid}

View(m) ==
    [pack |-> [p \in Pkgs |-> PackView(m, p)],
     tvar |-> [p \in Pkgs |-> [n \in Names |-> TVarView(m, p, n)]]]

NoView == [pack |-> [p \in Pkgs |-> "none"],
           tvar |-> [p \in Pkgs |-> [n \in Names |-> AbsentVar]]]

\* What the last step was (a call of a function of the module, or the
\* transaction event named) and af: an Assert of the code did not hold in it.
Result(op) == [op |-> op, af |-> FALSE]

\* Whether the history variables snap and removedNow are being recorded.
Observing == snap # <<>>

\* The record snap keeps of an open level: view, what was visible when it
\* began; written, the transactional variables set at this level; committed,
\* those set in subtransactions of it that committed; removed, the packages
\* removed at this level or in any subtransaction of it.
NoLog == [view |-> NoView, written |-> {}, committed |-> {}, removed |-> {}]

\* snap after level l began with module m.
LogBegin(l, m) ==
    IF Observing
    THEN [snap EXCEPT ![l] = [NoLog EXCEPT !.view = View(m)]]
    ELSE snap

\* snap after level l ended by how ("commit" or "abort").
LogEnd(l, how) ==
    IF Observing
    THEN [k \in 1..MaxLevel |->
             IF k = l THEN NoLog
             ELSE IF k = l - 1
             THEN [snap[k] EXCEPT
                      !.committed = IF how = "commit"
                                    THEN @ \cup snap[l].written
                                           \cup snap[l].committed
                                    ELSE @,
                      !.removed = @ \cup snap[l].removed]
             ELSE snap[k]]
    ELSE snap

\* snap after a call at the current level that set the transactional
\* variables w and removed the packages r.
LogCall(w, r) ==
    IF Observing
    THEN [snap EXCEPT ![nestLevel].written = @ \cup w,
                      ![nestLevel].removed = @ \cup r]
    ELSE snap

\* Every state list and every list of changes is within its bound.
HistOK(m) ==
    /\ \A p \in Pkgs :
        /\ Len(m.packages[p].states) <= MaxHist
        /\ \A n \in Names : Len(m.packages[p].varHashTransact[n].states) <= MaxHist
    /\ \A i \in 1..Len(m.changesStack) :
        LET bound == IF Observing THEN MaxListTx ELSE MaxList
        IN /\ Len(m.changesStack[i].changedVarsList) <= bound
           /\ Len(m.changesStack[i].changedPacksList) <= bound

\* The module's data after a step that ends with module m.
Install(m) ==
    /\ packagesHash' = m.packagesHash
    /\ packages' = m.packages
    /\ changesStack' = m.changesStack
    /\ LastPackage' = m.LastPackage
    /\ LastVariable' = m.LastVariable

\* Undefined behaviour kills the backend, and the session's data with it.
Crash(r) ==
    /\ crashed' = TRUE
    /\ res' = [r EXCEPT !.op = "crash"]
    /\ packagesHash' = FALSE
    /\ packages' = [p \in Pkgs |-> NoPackage]
    /\ changesStack' = <<>>
    /\ LastPackage' = NULL
    /\ LastVariable' = NoVarRef

\* The step of a call that ends with module m and result r.  A call that
\* used a dangling reference or a state that is none either crashes or
\* gives up with the module as it was; after a double delete of a memory
\* context it either crashes or goes on.
Finish(m, r) ==
    /\ \/ /\ ~m.ub
          /\ HistOK(m)
          /\ Install(m)
          /\ crashed' = FALSE
          /\ res' = [r EXCEPT !.af = m.af]
       \/ /\ m.ub
          /\ crashed' = FALSE
          /\ res' = r
          /\ UNCHANGED <<packagesHash, packages, changesStack, LastPackage,
                         LastVariable>>
       \/ /\ m.ub \/ m.df
          /\ Crash(r)

\* The step of a transaction event: the callback cannot give up, so after
\* undefined behaviour it either crashes or goes on with what it did.
FinishEvent(m, r) ==
    /\ \/ /\ HistOK(m)
          /\ Install(m)
          /\ crashed' = FALSE
          /\ res' = [r EXCEPT !.af = m.af]
       \/ /\ m.ub \/ m.df
          /\ Crash(r)

\* The head state of variable n of package p in the hash chosen by is_trans.
VarHead(m, p, n, is_trans) ==
    VarActualState(IF is_trans THEN m.packages[p].varHashTransact[n]
                   ELSE m.packages[p].varHashRegular[n])

\* Overwrites the head state of that variable.
SetVarHead(m, p, n, is_trans, st) ==
    IF is_trans
    THEN SetActualState(Touch(m, VarObject(p, n)), VarObject(p, n), st)
    ELSE IF m.packages[p].varHashRegular[n].states = <<>>
         THEN [m EXCEPT !.ub = TRUE]
         ELSE [m EXCEPT !.packages[p].varHashRegular[n].states =
                           <<st>> \o Tail(@)]

(* ------------------------------ handlers ------------------------------ *)

variable_set(m, p, n, typid, value, is_null, is_transactional) ==
    Bind(createVariableInternal(getPackageByName(m, p, TRUE, FALSE).m,
                                p, n, typid, is_transactional),
         LAMBDA c :
             IF c.err # NoError
             THEN [m |-> c.m, err |-> c.err]
             ELSE [m |-> SetVarHead(c.m, p, n, is_transactional,
                             [VarHead(c.m, p, n, is_transactional) EXCEPT
                                 !.is_null = is_null,
                                 !.value = IF is_null THEN 0 ELSE value]),
                   err |-> NoError])

VariableSet(p, n, value, is_transactional) ==
    /\ ~crashed /\ nestLevel >= 1
    /\ LET r == variable_set(Module, p, n, INT4OID, value, FALSE, is_transactional)
       IN /\ Finish(r.m, Result("call"))
          /\ snap' = LogCall(IF r.err = NoError /\ ~r.m.ub /\ is_transactional
                             THEN {<<p, n>>} ELSE {}, {})
    /\ removedNow' = {}
    /\ UNCHANGED nestLevel

variable_get(m, p, n, typid, strict) ==
    Bind(getPackageByName(m, p, FALSE, strict), LAMBDA g :
    IF g.err # NoError
    THEN [m |-> g.m, err |-> g.err, is_null |-> TRUE, value |-> 0]
    ELSE IF g.package = NULL
    THEN [m |-> g.m, err |-> NoError, is_null |-> TRUE, value |-> 0]
    ELSE Bind(getVariableInternal(g.m, p, n, typid, strict), LAMBDA v :
         IF v.err # NoError
         THEN [m |-> g.m, err |-> v.err, is_null |-> TRUE, value |-> 0]
         ELSE IF ~v.variable.found
         THEN [m |-> g.m, err |-> NoError, is_null |-> TRUE, value |-> 0]
         ELSE [m |-> [g.m EXCEPT !.ub = @ \/ v.variable.states = <<>>],
               err |-> NoError,
               is_null |-> VarActualState(v.variable).is_null,
               value |-> VarActualState(v.variable).value]))

VariableGet(p, n, strict) ==
    /\ ~crashed /\ nestLevel >= 1
    /\ LET r == variable_get(Module, p, n, INT4OID, strict)
       IN Finish(r.m, Result("call"))
    /\ removedNow' = {}
    /\ UNCHANGED <<nestLevel, snap>>

\* Whether the cached package / variable is the one the name denotes.
PackageCached(m, p) == m.LastPackage # NULL /\ m.LastPackage = p
VariableCached(m, n) == m.LastVariable # NoVarRef /\ m.LastVariable.name = n

\* Whether the cached reference denotes an entry that is in its hash table.
CachedVariableFound(m) ==
    LET lv == m.LastVariable
    IN /\ m.packages[lv.package].found
       /\ IF lv.is_transactional
          THEN m.packages[lv.package].varHashTransact[lv.name].found
          ELSE m.packages[lv.package].varHashRegular[lv.name].found

\* The reference LastVariable keeps to the slot getVariableInternal returned.
VarRef(p, n, v) ==
    IF v.found
    THEN [package |-> p, name |-> n, is_transactional |-> v.is_transactional]
    ELSE NoVarRef

\* The savepoint the record functions take on a transactional variable.
savepointIfUnchanged(m, p, n, is_trans) ==
    IF is_trans /\ ~isObjectChangedInCurrentTrans(m, VarObject(p, n))
    THEN addToChangesStack(createSavepoint(m, VarObject(p, n)), VarObject(p, n))
    ELSE m

\* insert_record: the record with this key is in the variable afterwards.
insert_record(m, p, n, is_trans, key) ==
    SetVarHead(m, p, n, is_trans,
               [VarHead(m, p, n, is_trans) EXCEPT !.rhash = @ \cup {key}])

\* update_record replaces the record with this key, if there is one.
update_record(m, p, n, is_trans, key) ==
    [m |-> SetVarHead(m, p, n, is_trans, VarHead(m, p, n, is_trans)),
     found |-> key \in VarHead(m, p, n, is_trans).rhash]

\* delete_record removes the record with this key, if there is one.
delete_record(m, p, n, is_trans, key) ==
    [m |-> SetVarHead(m, p, n, is_trans,
                      [VarHead(m, p, n, is_trans) EXCEPT !.rhash = @ \ {key}]),
     found |-> key \in VarHead(m, p, n, is_trans).rhash]

variable_insert(m, p, n, key, is_transactional) ==
    Bind(IF ~PackageCached(m, p)
         THEN [getPackageByName(m, p, TRUE, FALSE).m EXCEPT
                  !.LastPackage = p, !.LastVariable = NoVarRef]
         ELSE [m EXCEPT !.ub = @ \/ ~m.packages[p].found],
         LAMBDA m1 :
    IF ~VariableCached(m1, n)
    THEN Bind(createVariableInternal(m1, p, n, RECORDOID, is_transactional),
              LAMBDA c :
         IF c.err # NoError
         THEN [m |-> c.m, err |-> c.err]
         ELSE [m |-> insert_record(
                         [c.m EXCEPT !.LastVariable =
                             [package |-> p, name |-> n,
                              is_transactional |-> is_transactional]],
                         p, n, is_transactional, key),
               err |-> NoError])
    ELSE IF m1.LastVariable.is_transactional # is_transactional
    THEN [m |-> m1, err |-> ErrAlreadyCreated]
    ELSE [m |-> insert_record(
                    savepointIfUnchanged(
                        [m1 EXCEPT !.ub = @ \/ ~CachedVariableFound(m1)],
                        p, n, is_transactional),
                    p, n, is_transactional, key),
          err |-> NoError])

VariableInsert(p, n, key, is_transactional) ==
    /\ ~crashed /\ nestLevel >= 1
    /\ LET r == variable_insert(Module, p, n, key, is_transactional)
       IN Finish(r.m, Result("call"))
    /\ removedNow' = {}
    /\ UNCHANGED <<nestLevel, snap>>

\* variable_update and variable_delete find their variable the same way;
\* result: the module afterwards, the variable reference, the error.
findRecordVariable(m, p, n) ==
    Bind(IF ~PackageCached(m, p)
         THEN getPackageByName(m, p, FALSE, TRUE)
         ELSE [m |-> [m EXCEPT !.ub = @ \/ ~m.packages[p].found],
               package |-> p, err |-> NoError],
         LAMBDA g :
    IF g.err # NoError
    THEN [m |-> g.m, variable |-> NoVarRef, err |-> g.err]
    ELSE Bind(IF ~PackageCached(m, p)
              THEN [g.m EXCEPT !.LastPackage = p, !.LastVariable = NoVarRef]
              ELSE g.m,
              LAMBDA m1 :
    Bind(getVariableInternal(m1, p, n, RECORDOID, TRUE), LAMBDA v :
    IF ~VariableCached(m1, n) /\ v.err # NoError
    THEN [m |-> [m1 EXCEPT !.ub = @ \/ ~m1.packages[p].hctxRegular],
          variable |-> NoVarRef, err |-> v.err]
    ELSE Bind(IF ~VariableCached(m1, n)
              THEN [m1 EXCEPT !.ub = @ \/ ~m1.packages[p].hctxRegular,
                              !.LastVariable = VarRef(p, n, v.variable)]
              ELSE [m1 EXCEPT !.ub = @ \/ ~CachedVariableFound(m1)],
              LAMBDA m2 :
         [m |-> savepointIfUnchanged(m2, p, n, m2.LastVariable.is_transactional),
          variable |-> m2.LastVariable, err |-> NoError]))))

variable_update(m, p, n, key) ==
    Bind(findRecordVariable(m, p, n), LAMBDA f :
    IF f.err # NoError
    THEN [m |-> f.m, err |-> f.err, found |-> FALSE]
    ELSE Bind(update_record(f.m, p, n, f.variable.is_transactional, key),
              LAMBDA u : [m |-> u.m, err |-> NoError, found |-> u.found]))

variable_delete(m, p, n, key) ==
    Bind(findRecordVariable(m, p, n), LAMBDA f :
    IF f.err # NoError
    THEN [m |-> f.m, err |-> f.err, found |-> FALSE]
    ELSE Bind(delete_record(f.m, p, n, f.variable.is_transactional, key),
              LAMBDA d : [m |-> d.m, err |-> NoError, found |-> d.found]))

\* variable_select: the lookup of the record variable and the rows it then
\* walks through.
variable_select(m, p, n) ==
    Bind(getPackageByName(m, p, FALSE, TRUE), LAMBDA g :
    IF g.err # NoError
    THEN [m |-> g.m, err |-> g.err, rows |-> {}]
    ELSE Bind(getVariableInternal(g.m, p, n, RECORDOID, TRUE), LAMBDA v :
         IF v.err # NoError
         THEN [m |-> g.m, err |-> v.err, rows |-> {}]
         ELSE [m |-> [g.m EXCEPT !.ub = @ \/ v.variable.states = <<>>],
               err |-> NoError,
               rows |-> VarActualState(v.variable).rhash]))

VariableUpdate(p, n, key) ==
    /\ ~crashed /\ nestLevel >= 1
    /\ LET r == variable_update(Module, p, n, key)
       IN Finish(r.m, Result("call"))
    /\ removedNow' = {}
    /\ UNCHANGED <<nestLevel, snap>>

VariableDelete(p, n, key) ==
    /\ ~crashed /\ nestLevel >= 1
    /\ LET r == variable_delete(Module, p, n, key)
       IN Finish(r.m, Result("call"))
    /\ removedNow' = {}
    /\ UNCHANGED <<nestLevel, snap>>

variable_exists(m, p, n) ==
    Bind(getPackageByName(m, p, FALSE, FALSE), LAMBDA g :
    IF g.package = NULL
    THEN [m |-> g.m, found |-> FALSE]
    ELSE LET v == LookupVariable(g.m, p, n)
         IN [m |-> [g.m EXCEPT !.ub = @ \/ ~g.m.packages[p].hctxRegular
                                         \/ (v.found /\ v.states = <<>>)],
             found |-> IF v.found THEN VarActualState(v).is_valid ELSE FALSE])

VariableExists(p, n) ==
    /\ ~crashed /\ nestLevel >= 1
    /\ LET r == variable_exists(Module, p, n)
       IN Finish(r.m, Result("call"))
    /\ removedNow' = {}
    /\ UNCHANGED <<nestLevel, snap>>

package_exists(m, p) ==
    Bind(getPackageByName(m, p, FALSE, FALSE), LAMBDA g :
         [m |-> g.m, found |-> g.package # NULL])

PackageExists(p) ==
    /\ ~crashed /\ nestLevel >= 1
    /\ LET r == package_exists(Module, p)
       IN Finish(r.m, Result("call"))
    /\ removedNow' = {}
    /\ UNCHANGED <<nestLevel, snap>>

remove_variable(m, p, n) ==
    Bind(getPackageByName(m, p, FALSE, TRUE), LAMBDA g :
    IF g.err # NoError
    THEN [m |-> g.m, err |-> g.err]
    ELSE Bind([g.m EXCEPT !.ub = @ \/ ~g.m.packages[p].hctxRegular],
              LAMBDA m0 :
    IF m0.packages[p].varHashRegular[n].found
    THEN [m |-> [m0 EXCEPT !.packages[p].varHashRegular[n] = NoVariable,
                           !.LastVariable = NoVarRef],
          err |-> NoError]
    ELSE IF ~m0.packages[p].varHashTransact[n].found
    THEN [m |-> m0, err |-> ErrUnrecognizedVariable]
    ELSE LET o == VarObject(p, n)
             m1 == IF ~isObjectChangedInCurrentTrans(m0, o)
                   THEN addToChangesStack(createSavepoint(m0, o), o)
                   ELSE m0
         IN [m |-> [SetValid(Touch(m1, o), o, FALSE) EXCEPT
                       !.LastVariable = NoVarRef],
             err |-> NoError]))

RemoveVariable(p, n) ==
    /\ ~crashed /\ nestLevel >= 1
    /\ LET r == remove_variable(Module, p, n)
       IN Finish(r.m, Result("call"))
    /\ removedNow' = {}
    /\ UNCHANGED <<nestLevel, snap>>

remove_package(m, p) ==
    Bind(getPackageByName(m, p, FALSE, TRUE), LAMBDA g :
    IF g.err # NoError
    THEN [m |-> g.m, err |-> g.err]
    ELSE [m |-> [removePackageInternal(g.m, p) EXCEPT
                    !.LastPackage = NULL, !.LastVariable = NoVarRef],
          err |-> NoError])

RemovePackage(p) ==
    /\ ~crashed /\ nestLevel >= 1
    /\ LET r == remove_package(Module, p)
       IN /\ Finish(r.m, Result("call"))
          /\ removedNow' = IF Observing /\ r.err = NoError /\ ~r.m.ub
                           THEN {p} ELSE {}
          /\ snap' = LogCall({}, IF r.err = NoError /\ ~r.m.ub THEN {p} ELSE {})
    /\ UNCHANGED nestLevel

\* The packages in the order hash_seq_search visits them.
PackageOrder == <<"p">>

RECURSIVE removeEachPackage(_, _)
removeEachPackage(m, order) ==
    IF order = <<>> THEN m
    ELSE IF m.packages[Head(order)].found
    THEN removeEachPackage(removePackageInternal(m, Head(order)), Tail(order))
    ELSE removeEachPackage(m, Tail(order))

remove_packages(m) ==
    IF ~m.packagesHash THEN m
    ELSE [removeEachPackage(m, PackageOrder) EXCEPT
             !.LastPackage = NULL, !.LastVariable = NoVarRef]

RemovePackages ==
    /\ ~crashed /\ nestLevel >= 1
    /\ Finish(remove_packages(Module), Result("call"))
    /\ LET r == IF remove_packages(Module).ub THEN {}
                ELSE {p \in Pkgs : PackView(Module, p) = "valid"}
       IN /\ removedNow' = IF Observing THEN r ELSE {}
          /\ snap' = LogCall({}, r)
    /\ UNCHANGED nestLevel

(* ------------------------- transaction events ------------------------- *)

\* The host starts a top-level transaction; the module is not called.
BeginTransaction ==
    /\ ~crashed /\ nestLevel = 0
    /\ nestLevel' = 1
    /\ res' = Result("begin")
    /\ snap' = LogBegin(1, Module)
    /\ removedNow' = {}
    /\ UNCHANGED <<packagesHash, packages, changesStack, LastPackage,
                   LastVariable, crashed>>

\* pgvSubTransCallback with a plausible bug: the start of a subtransaction
\* pushes a frame whether the stack exists or not.
pgvSubTransCallbackNoGuard(m, event) ==
    IF event = "START_SUB" THEN pushChangesStack(m)
    ELSE IF m.changesStack # <<>>
    THEN IF event = "COMMIT_SUB" THEN processChanges(m, RELEASE_SAVEPOINT)
         ELSE IF event = "ABORT_SUB" THEN processChanges(m, ROLLBACK_TO_SAVEPOINT)
         ELSE m
    ELSE m

pgvSubTransCallback(m, event) ==
    IF m.changesStack # <<>>
    THEN IF event = "START_SUB" THEN pushChangesStack(m)
         ELSE IF event = "COMMIT_SUB" THEN processChanges(m, RELEASE_SAVEPOINT)
         ELSE IF event = "ABORT_SUB" THEN processChanges(m, ROLLBACK_TO_SAVEPOINT)
         ELSE m
    ELSE m

pgvTransCallback(m, event) ==
    IF m.changesStack # <<>>
    THEN IF event = "PRE_COMMIT" THEN processChanges(m, RELEASE_SAVEPOINT)
         ELSE IF event = "ABORT" THEN processChanges(m, ROLLBACK_TO_SAVEPOINT)
         ELSE m
    ELSE m

StartSubTransaction ==
    /\ ~crashed /\ nestLevel >= 1 /\ nestLevel < MaxLevel
    /\ nestLevel' = nestLevel + 1
    /\ FinishEvent(pgvSubTransCallback(Module, "START_SUB"),
                   Result("start_sub"))
    /\ snap' = LogBegin(nestLevel + 1, Module)
    /\ removedNow' = {}

CommitSubTransaction ==
    /\ ~crashed /\ nestLevel >= 2
    /\ nestLevel' = nestLevel - 1
    /\ FinishEvent(pgvSubTransCallback(Module, "COMMIT_SUB"), Result("commit_sub"))
    /\ snap' = LogEnd(nestLevel, "commit")
    /\ removedNow' = {}

AbortSubTransaction ==
    /\ ~crashed /\ nestLevel >= 2
    /\ nestLevel' = nestLevel - 1
    /\ FinishEvent(pgvSubTransCallback(Module, "ABORT_SUB"), Result("abort_sub"))
    /\ snap' = LogEnd(nestLevel, "abort")
    /\ removedNow' = {}

CommitTransaction ==
    /\ ~crashed /\ nestLevel = 1
    /\ nestLevel' = 0
    /\ FinishEvent(pgvTransCallback(Module, "PRE_COMMIT"), Result("commit"))
    /\ snap' = LogEnd(nestLevel, "commit")
    /\ removedNow' = {}

AbortTransaction ==
    /\ ~crashed /\ nestLevel = 1
    /\ nestLevel' = 0
    /\ FinishEvent(pgvTransCallback(Module, "ABORT"), Result("abort"))
    /\ snap' = LogEnd(nestLevel, "abort")
    /\ removedNow' = {}

(* ---------------------------- specification --------------------------- *)

Init ==
    /\ packagesHash = FALSE
    /\ packages = [p \in Pkgs |-> NoPackage]
    /\ changesStack = <<>>
    /\ LastPackage = NULL
    /\ LastVariable = NoVarRef
    /\ nestLevel = 0
    /\ crashed = FALSE
    /\ res = Result("init")
    /\ snap = <<>>
    /\ removedNow = {}

Next ==
    \/ \E p \in Pkgs, n \in Names, v \in Vals, t \in BOOLEAN :
           VariableSet(p, n, v, t)
    \/ \E p \in Pkgs, n \in Names, s \in BOOLEAN : VariableGet(p, n, s)
    \/ \E p \in Pkgs, n \in Names, k \in Keys, t \in BOOLEAN :
           VariableInsert(p, n, k, t)
    \/ \E p \in Pkgs, n \in Names, k \in Keys : VariableUpdate(p, n, k)
    \/ \E p \in Pkgs, n \in Names, k \in Keys : VariableDelete(p, n, k)
    \/ \E p \in Pkgs, n \in Names : VariableExists(p, n)
    \/ \E p \in Pkgs : PackageExists(p)
    \/ \E p \in Pkgs, n \in Names : RemoveVariable(p, n)
    \/ \E p \in Pkgs : RemovePackage(p)
    \/ RemovePackages
    \/ BeginTransaction
    \/ StartSubTransaction
    \/ CommitSubTransaction
    \/ AbortSubTransaction
    \/ CommitTransaction
    \/ AbortTransaction

Spec == Init /\ [][Next]_vars

\* The same program with the history variables recorded, driven by the
\* functions that write scalar variables and remove objects, and by the
\* transaction events.
InitTx ==
    /\ packagesHash = FALSE
    /\ packages = [p \in Pkgs |-> NoPackage]
    /\ changesStack = <<>>
    /\ LastPackage = NULL
    /\ LastVariable = NoVarRef
    /\ nestLevel = 0
    /\ crashed = FALSE
    /\ res = Result("init")
    /\ snap = [l \in 1..MaxLevel |-> NoLog]
    /\ removedNow = {}

NextTx ==
    \/ \E p \in Pkgs, n \in Names, v \in Vals, t \in BOOLEAN :
           VariableSet(p, n, v, t)
    \/ \E p \in Pkgs, n \in Names : RemoveVariable(p, n)
    \/ \E p \in Pkgs : RemovePackage(p)
    \/ RemovePackages
    \/ BeginTransaction
    \/ StartSubTransaction
    \/ CommitSubTransaction
    \/ AbortSubTransaction
    \/ CommitTransaction
    \/ AbortTransaction

SpecTx == InitTx /\ [][NextTx]_vars

(* ------------------------------ properties ---------------------------- *)

\* What a lookup sees of transactional variable n of package p.
Visible(p, n) == TVarView(Module, p, n)

\* After view a, the variable is what it was at view b: absent if it was
\* not in its package, else of the same validity and value.
Same(b, a) ==
    IF b.present THEN a.valid = b.valid /\ a.data = b.data ELSE ~a.present

\* The registry, the histories with their validity flags, and changesStack.
Tracked(m) == <<m.packagesHash, m.packages, m.changesStack>>

\* The steps that end the current level, the backend surviving them.
AbortStep == (AbortSubTransaction \/ AbortTransaction) /\ ~crashed'
CommitStep == (CommitSubTransaction \/ CommitTransaction) /\ ~crashed'

\* C1: after a top-level transaction is aborted, every transactional
\* variable that was not in its package when the transaction began is absent,
\* and every other one has the validity and the value it had then.
C1_TopLevelAbortRestores ==
    [][(AbortTransaction /\ ~crashed') =>
          \A p \in Pkgs, n \in Names :
              Same(snap[1].view.tvar[p][n], Visible(p, n)')]_vars

C3_CommittedSubUndoable ==
    [][/\ (CommitSubTransaction /\ ~crashed') =>
              \A p \in Pkgs, n \in Names :
                  <<p, n>> \in snap[nestLevel].written
                      => /\ Visible(p, n)'.valid = Visible(p, n).valid
                         /\ Visible(p, n)'.data = Visible(p, n).data
       /\ AbortStep =>
              \A p \in Pkgs, n \in Names :
                  /\ <<p, n>> \in snap[nestLevel].committed
                  /\ snap[nestLevel].removed = {}
                  => Same(snap[nestLevel].view.tvar[p][n], Visible(p, n)')]_vars

\* C4: the commit of a level (subtransaction commit or top-level
\* pre-commit) leaves every transactional variable of a valid package with
\* the validity and the value it had just before the commit.
C4_CommitKeepsValue ==
    [][CommitStep =>
          \A p \in Pkgs, n \in Names :
              PackView(Module, p) = "valid"
                  => /\ Visible(p, n)'.valid = Visible(p, n).valid
                     /\ Visible(p, n)'.data = Visible(p, n).data]_vars

\* A transaction committed in which the transactional variable x was given
\* the value 2, and 2 is what is seen after the commit.
C4_Witness ==
    /\ res.op = "commit" /\ nestLevel = 0
    /\ Visible("p", "x").valid
    /\ Visible("p", "x").data.value = 2
    /\ packages["p"].varHashTransact["x"].states[1].level = 0

\* C5: when the call just before the abort of a level removed a package
\* that was valid when the level began, then after the abort the package is
\* valid, its transactional variables are what they were when the level
\* began, and its hash of regular variables exists and is empty.
C5_AbortedPackageRemoval ==
    [][AbortStep =>
          \A p \in removedNow :
              snap[nestLevel].view.pack[p] = "valid"
                  => /\ PackView(Module, p)' = "valid"
                     /\ \A n \in Names :
                            Same(snap[nestLevel].view.tvar[p][n], Visible(p, n)')
                     /\ packages'[p].hctxRegular
                     /\ \A n \in Names :
                            ~packages'[p].varHashRegular[n].found]_vars

\* C6: after the abort of a level, every package that was in the registry
\* when the level began is valid iff it was valid then.
C6_PackageValidityRollsBack ==
    [][AbortStep =>
          \A p \in Pkgs :
              snap[nestLevel].view.pack[p] # "absent"
                  => PackView(Module, p)' = snap[nestLevel].view.pack[p]]_vars

\* C7: after the abort of a level, no package and no transactional variable
\* that was not in the registry when the level began is in the registry.
C7_CreatedObjectsDestroyed ==
    [][AbortStep =>
          /\ \A p \in Pkgs :
                 snap[nestLevel].view.pack[p] = "absent"
                     => PackView(Module, p)' = "absent"
          /\ \A p \in Pkgs, n \in Names :
                 ~snap[nestLevel].view.tvar[p][n].present
                     => ~Visible(p, n)'.present]_vars

\* Variable n is in the hash of package p that holds the other kind.
OtherKindExists(p, n, is_transactional) ==
    /\ packages[p].found
    /\ IF is_transactional THEN packages[p].varHashRegular[n].found
       ELSE packages[p].varHashTransact[n].found

\* Variable n is in package p with a type other than typid.
OtherTypeExists(p, n, typid) ==
    /\ packages[p].found
    /\ \/ /\ packages[p].varHashRegular[n].found
          /\ packages[p].varHashRegular[n].typid # typid
       \/ /\ packages[p].varHashTransact[n].found
          /\ packages[p].varHashTransact[n].typid # typid

\* C8: in every state in which a function can be called, variable_set and
\* variable_insert naming a variable that exists with the opposite
\* transactional flag raise "already created as [NOT ]TRANSACTIONAL", and a
\* call that raises it leaves registry, histories and changesStack as
\* they were.
C8_KindMismatchNoMutation ==
    (~crashed /\ nestLevel >= 1) =>
        \A p \in Pkgs, n \in Names, t \in BOOLEAN :
            /\ \A v \in Vals :
                   LET r == variable_set(Module, p, n, INT4OID, v, FALSE, t)
                   IN ~r.m.ub =>
                          /\ OtherKindExists(p, n, t) => r.err = ErrAlreadyCreated
                          /\ r.err = ErrAlreadyCreated
                                 => Tracked(r.m) = Tracked(Module)
            /\ \A k \in Keys :
                   LET r == variable_insert(Module, p, n, k, t)
                   IN ~r.m.ub =>
                          /\ OtherKindExists(p, n, t) => r.err = ErrAlreadyCreated
                          /\ r.err = ErrAlreadyCreated
                                 => Tracked(r.m) = Tracked(Module)

\* C9: in every state in which a function can be called, a call that raises
\* "requires ... value" (an error other than that of C8) leaves registry,
\* histories, validity flags and changesStack as they were.
C9_TypeMismatchNoMutation ==
    (~crashed /\ nestLevel >= 1) =>
        /\ ErrRequiresValue # ErrAlreadyCreated
        /\ \A p \in Pkgs, n \in Names :
            /\ \A v \in Vals, t \in BOOLEAN :
                   LET r == variable_set(Module, p, n, INT4OID, v, FALSE, t)
                   IN (~r.m.ub /\ r.err = ErrRequiresValue)
                          => Tracked(r.m) = Tracked(Module)
            /\ \A k \in Keys, t \in BOOLEAN :
                   LET r == variable_insert(Module, p, n, k, t)
                   IN (~r.m.ub /\ r.err = ErrRequiresValue)
                          => Tracked(r.m) = Tracked(Module)
            /\ \A k \in Keys :
                   LET u == variable_update(Module, p, n, k)
                       d == variable_delete(Module, p, n, k)
                   IN /\ (~u.m.ub /\ u.err = ErrRequiresValue)
                          => Tracked(u.m) = Tracked(Module)
                      /\ (~d.m.ub /\ d.err = ErrRequiresValue)
                          => Tracked(d.m) = Tracked(Module)
            /\ \A s \in BOOLEAN :
                   LET g == variable_get(Module, p, n, INT4OID, s)
                   IN (~g.m.ub /\ g.err = ErrRequiresValue)
                          => Tracked(g.m) = Tracked(Module)

\* C10: in every state in which a function can be called, a lookup of a
\* package or variable that is unknown or whose current state is invalid
\* raises "unrecognized package/variable" when strict, and when not strict
\* raises nothing and yields no object (the scalar get yields NULL); no
\* lookup changes registry, histories or changesStack.
C10_StrictVersusNonStrict ==
    (~crashed /\ nestLevel >= 1) =>
        \A p \in Pkgs, n \in Names :
            LET gs == getPackageByName(Module, p, FALSE, TRUE)
                gn == getPackageByName(Module, p, FALSE, FALSE)
                vs == variable_get(Module, p, n, INT4OID, TRUE)
                vn == variable_get(Module, p, n, INT4OID, FALSE)
                noVar == PackView(Module, p) = "valid"
                         /\ ~OtherTypeExists(p, n, INT4OID)
                         /\ ~packages[p].varHashRegular[n].found
                         /\ ~Visible(p, n).valid
            IN /\ PackView(Module, p) # "valid"
                      => /\ gs.err = ErrUnrecognizedPackage
                         /\ gn.err = NoError /\ gn.package = NULL
                         /\ vn.err = NoError /\ vn.is_null
               /\ (noVar /\ ~vs.m.ub /\ ~vn.m.ub)
                      => /\ vs.err = ErrUnrecognizedVariable
                         /\ vn.err = NoError /\ vn.is_null
               /\ Tracked(gs.m) = Tracked(Module)
               /\ Tracked(gn.m) = Tracked(Module)
               /\ Tracked(vs.m) = Tracked(Module)
               /\ Tracked(vn.m) = Tracked(Module)

\* C11: a regular variable is outside the transactions.  A value written
\* to it is what a lookup yields right after the write, and the abort of a
\* level (subtransaction or top-level) leaves every regular variable as it
\* was before the abort: there with the value written, or removed.
C11_RegularNotTransactional ==
    [][/\ (~crashed /\ nestLevel >= 1) =>
              \A p \in Pkgs, n \in Names, v \in Vals :
                  LET w == variable_set(Module, p, n, INT4OID, v, FALSE, FALSE)
                      g == variable_get(w.m, p, n, INT4OID, TRUE)
                  IN (w.err = NoError /\ ~w.m.ub)
                         => /\ g.err = NoError
                            /\ ~g.is_null /\ g.value = v
       /\ AbortStep =>
              \A p \in Pkgs, n \in Names :
                  /\ packages'[p].varHashRegular[n].found
                         = packages[p].varHashRegular[n].found
                  /\ packages'[p].varHashRegular[n].states
                         = packages[p].varHashRegular[n].states]_vars

\* A level was aborted in which the regular variable x was given the value
\* 2, and x is there with that value after the abort.
C11_Witness ==
    /\ res.op \in {"abort", "abort_sub"}
    /\ PackView(Module, "p") = "valid"
    /\ packages["p"].varHashRegular["x"].found
    /\ packages["p"].varHashRegular["x"].states[1].value = 2
    /\ packages["p"].varHashRegular["x"].states[1].is_valid

\* C12: while the current state of a package is not valid, no read reports
\* or works on a variable of it: the scalar get fails when strict and yields
\* NULL when not, variable_exists says no, variable_select, variable_update
\* and variable_delete (through the cache or not) fail, and the listing has no
\* triple of the package.  The listing holds exactly the triples whose
\* package and variable are both valid.
C12_NoLiveVariableUnderDeadPackage ==
    (~crashed /\ nestLevel >= 1) =>
        /\ \A p \in Pkgs, n \in Names :
               PackView(Module, p) = "invalid" =>
                   /\ variable_get(Module, p, n, INT4OID, TRUE).err # NoError
                   /\ variable_get(Module, p, n, INT4OID, FALSE).is_null
                   /\ ~variable_exists(Module, p, n).found
                   /\ variable_select(Module, p, n).err # NoError
                   /\ \A k \in Keys :
                          /\ variable_update(Module, p, n, k).err # NoError
                          /\ variable_delete(Module, p, n, k).err # NoError
                   /\ \A t \in get_packages_and_variables(Module) : t[1] # p
        /\ get_packages_and_variables(Module) =
               {t \in Pkgs \X Names \X BOOLEAN :
                   /\ PackView(Module, t[1]) = "valid"
                   /\ IF t[3]
                      THEN Visible(t[1], t[2]).valid
                      ELSE /\ packages[t[1]].varHashRegular[t[2]].found
                           /\ VarActualState(
                                  packages[t[1]].varHashRegular[t[2]]).is_valid}

\* A removed package that still holds a transactional variable whose own
\* state is valid.
C12_Witness ==
    /\ ~crashed /\ nestLevel >= 1
    /\ PackView(Module, "p") = "invalid"
    /\ packages["p"].varHashTransact["x"].found
    /\ VarActualState(packages["p"].varHashTransact["x"]).is_valid

\* C13: whenever a commit or an abort leaves packagesHash without entries,
\* packagesHash, the cached package and variable and changesStack are as
\* they were before the first use; and whenever packagesHash has no entries
\* inside a transaction, a creation makes packagesHash anew and builds
\* changesStack up to the current nesting level.
C13_ProcessWideReset ==
    [][/\ ((CommitStep \/ AbortStep) /\ NoEntries(Module)') =>
              /\ ~packagesHash'
              /\ packages' = [p \in Pkgs |-> NoPackage]
              /\ changesStack' = <<>>
              /\ LastPackage' = NULL
              /\ LastVariable' = NoVarRef
       /\ (~crashed /\ nestLevel >= 1 /\ NoEntries(Module)) =>
              \A p \in Pkgs, n \in Names, v \in Vals, t \in BOOLEAN :
                  LET r == variable_set(Module, p, n, INT4OID, v, FALSE, t)
                  IN /\ r.err = NoError /\ ~r.m.ub
                     /\ r.m.packagesHash
                     /\ r.m.packages[p].found
                     /\ Len(r.m.changesStack) = nestLevel]_vars

\* The commit of a subtransaction has just emptied packagesHash: the
\* transaction had a package, removed it, and nothing is left of the module's
\* data while the transaction is still open.
C13_Witness ==
    /\ res.op = "commit_sub" /\ nestLevel = 1 /\ ~crashed
    /\ Observing /\ snap[1].removed = {"p"}
    /\ ~packagesHash /\ changesStack = <<>>

(* --------------------------- C14: registration ------------------------ *)

\* The registration of a change to o at the current level, as every caller
\* writes it: a savepoint and a listing unless o is already stamped with
\* the level.
registerChange(m, o) ==
    IF ~isObjectChangedInCurrentTrans(m, o)
    THEN addToChangesStack(createSavepoint(m, o), o)
    ELSE m

\* The transactional objects that are in their hash tables.
LiveObjects(m) ==
    {o \in {PackObject(p) : p \in Pkgs}
           \cup {VarObject(p, n) : p \in Pkgs, n \in Names} :
        ObjectFound(m, o) /\ GetStateStorage(m, o) # <<>>}

\* The list of the frame that holds objects of o's type.
ListOf(frame, o) ==
    IF o.type = TRANS_PACKAGE THEN frame.changedPacksList
    ELSE frame.changedVarsList

\* How many times o is listed in the frame.
Listings(frame, o) ==
    Cardinality({i \in 1..Len(ListOf(frame, o)) : ListOf(frame, o)[i] = o})

\* How many states of o carry the level l.
Stamped(m, o, l) ==
    Cardinality({i \in 1..Len(GetStateStorage(m, o)) :
                    GetStateStorage(m, o)[i].level = l})

\* C14: registration is idempotent per level.  In a transaction, a change to
\* an object registered at the current level and registered again changes
\* nothing the second time (no state pushed, no listing added), and after
\* it the object has exactly one state stamped with the level and is listed
\* exactly once in the frame of the level.
C14_RegistrationIdempotent ==
    (~crashed /\ nestLevel >= 1) =>
        \A o \in LiveObjects(Module) :
            LET m1 == registerChange(Module, o)
                m2 == registerChange(m1, o)
            IN /\ m2 = m1
               /\ Stamped(m1, o, nestLevel) = 1
               /\ Len(m1.changesStack) >= 1
               /\ Listings(Head(m1.changesStack), o) = 1

(* --------------------------- C15: history shape ----------------------- *)

\* C15: the shape of a history.  In every reachable state the states of
\* every package and of every transactional variable carry strictly
\* decreasing levels from the head to the tail, so there is at most one
\* state per nesting level.
C15_HistoryShape ==
    ~crashed =>
        \A o \in LiveObjects(Module) :
            \A i \in 1..(Len(GetStateStorage(Module, o)) - 1) :
                GetStateStorage(Module, o)[i].level
                    > GetStateStorage(Module, o)[i + 1].level

(* --------------------------- C16: stack depth ------------------------- *)

\* The step is a call of the module that changed the states of a package or
\* a transactional variable, or put one in or out of its hash table.
ChangeStep ==
    /\ res'.op = "call"
    /\ \E p \in Pkgs :
        \/ packages'[p].found # packages[p].found
        \/ packages'[p].states # packages[p].states
        \/ packages'[p].varHashTransact # packages[p].varHashTransact

\* C16: the depth of the stack.  Between transaction events, a changesStack
\* that exists has as many frames as the transaction nesting level.  A
\* change to a transactional object leaves the changesStack in existence,
\* and the stack stays until the top-level transaction ends or no object is
\* left in the module: while an object has a pending change, the stack
\* exists.
C16_StackDepth ==
    [][~crashed' =>
          /\ changesStack' # <<>> => Len(changesStack') = nestLevel'
          /\ (ChangeStep /\ ~NoEntries(Module)') => changesStack' # <<>>
          /\ (changesStack # <<>> /\ changesStack' = <<>>)
                 => (nestLevel' = 0 \/ NoEntries(Module)')]_vars

\* A call at nesting level 2 has just changed transactional variable x of
\* package p, whose first change in the transaction it is: the stack was
\* built with two frames and x has its undo image below the head.
C16_Witness ==
    /\ ~crashed /\ res.op = "call" /\ nestLevel = 2
    /\ Len(changesStack) = 2
    /\ changesStack[2] = EmptyFrame
    /\ Len(packages["p"].varHashTransact["x"].states) = 2
    /\ VarObject("p", "x") \in
           {changesStack[1].changedVarsList[i] :
                i \in 1..Len(changesStack[1].changedVarsList)}

(* ------------------------ C17: non-empty history ---------------------- *)

\* C17: no empty history.  In every reachable state every package in
\* packagesHash and every variable in the regular or the transactional hash
\* table of such a package has at least one state.
C17_NonEmptyHistory ==
    ~crashed =>
        \A p \in Pkgs :
            packages[p].found =>
                /\ packages[p].states # <<>>
                /\ \A n \in Names :
                    /\ packages[p].varHashRegular[n].found
                           => packages[p].varHashRegular[n].states # <<>>
                    /\ packages[p].varHashTransact[n].found
                           => packages[p].varHashTransact[n].states # <<>>

(* --------------------- C18: savepoint before mutation ----------------- *)

\* The states of o in the packages pk, and whether o is in its hash table.
StatesIn(pk, o) ==
    IF o.type = TRANS_PACKAGE THEN pk[o.package].states
    ELSE pk[o.package].varHashTransact[o.name].states

FoundIn(pk, o) ==
    IF o.type = TRANS_PACKAGE THEN pk[o.package].found
    ELSE pk[o.package].found /\ pk[o.package].varHashTransact[o.name].found

\* A state without its level: validity flag and value.
Payload(st) == [st EXCEPT !.level = 0]

\* Whether o is listed in the head frame of the stack.
ListedAtTop(stack, o) ==
    stack # <<>> /\ Listings(Head(stack), o) >= 1

\* C18: the savepoint predates the mutation.  When a call at nesting level L
\* leaves a package or a transactional variable with another validity flag
\* or value in its head state, the head state is stamped L and the object
\* is listed in the frame of level L; and if the object was not yet listed
\* in that frame before the call, what its head state held before the call
\* is kept in the state below the head.
C18_SavepointPredatesMutation ==
    [][(res'.op = "call" /\ ~crashed') =>
          \A o \in {PackObject(p) : p \in Pkgs}
                   \cup {VarObject(p, n) : p \in Pkgs, n \in Names} :
              (/\ FoundIn(packages, o) /\ FoundIn(packages', o)
               /\ StatesIn(packages, o) # <<>> /\ StatesIn(packages', o) # <<>>
               /\ Payload(Head(StatesIn(packages', o)))
                      # Payload(Head(StatesIn(packages, o))))
              => /\ Head(StatesIn(packages', o)).level = nestLevel
                 /\ ListedAtTop(changesStack', o)
                 /\ ~ListedAtTop(changesStack, o)
                        => /\ Len(StatesIn(packages', o)) >= 2
                           /\ Payload(StatesIn(packages', o)[2])
                                  = Payload(Head(StatesIn(packages, o)))]_vars

(* ----------------------- C19, C20: what a commit does ----------------- *)

\* The packages and transactional variables.
Objects ==
    {PackObject(p) : p \in Pkgs} \cup {VarObject(p, n) : p \in Pkgs, n \in Names}

\* o is listed in the frame of the level that the step commits, had a state
\* below its head, and is still in its hash table after the step.
CommittedWithUndo(o) ==
    /\ CommitStep /\ ~crashed'
    /\ ListedAtTop(changesStack, o)
    /\ FoundIn(packages, o) /\ Len(StatesIn(packages, o)) >= 2
    /\ FoundIn(packages', o)

\* C19 as the specification states it: the commit of a level removes the
\* state second from the head of every object listed in the frame of the
\* level that has one, so the object has one state fewer afterwards.
C19_CommitDropsSuperseded ==
    [][\A o \in Objects :
          CommittedWithUndo(o)
              => Len(StatesIn(packages', o)) = Len(StatesIn(packages, o)) - 1]_vars

\* The same with the rule of the subtransaction commit taken into account:
\* the commit of level L removes the state second from the head of an
\* object listed in the frame of L when L is the top level or that state is
\* stamped L - 1, and the object then has one state fewer; otherwise the
\* state stays as the undo image of the parent and the object has as many
\* states as before.  The states below are untouched in both cases.
C19_DropsWhenSuperseded ==
    [][\A o \in Objects :
          CommittedWithUndo(o)
              => LET sts == StatesIn(packages, o)
                     after == StatesIn(packages', o)
                 IN IF nestLevel = 1 \/ sts[2].level = nestLevel - 1
                    THEN /\ Len(after) = Len(sts) - 1
                         /\ Tail(after) = Tail(Tail(sts))
                    ELSE /\ Len(after) = Len(sts)
                         /\ Tail(after) = Tail(sts)]_vars

\* C20: the collapse at the commit of a subtransaction.  After the commit of
\* level L >= 2, every object that was listed in the frame of L and is still
\* in its hash table has its head state stamped L - 1 and is listed exactly
\* once in the frame of L - 1; the state below its head is removed if it was
\* stamped L - 1 and kept otherwise.
C20_SubCommitCollapse ==
    [][(res'.op = "commit_sub" /\ ~crashed') =>
          \A o \in Objects :
              (/\ ListedAtTop(changesStack, o)
               /\ FoundIn(packages, o) /\ StatesIn(packages, o) # <<>>
               /\ FoundIn(packages', o))
              => LET sts == StatesIn(packages, o)
                     after == StatesIn(packages', o)
                 IN /\ after # <<>>
                    /\ Head(after).level = nestLevel - 1
                    /\ changesStack' # <<>>
                    /\ Listings(Head(changesStack'), o) = 1
                    /\ IF Len(sts) >= 2 /\ sts[2].level = nestLevel - 1
                       THEN Tail(after) = Tail(Tail(sts))
                       ELSE Tail(after) = Tail(sts)]_vars

(* ------------------- C21..C23: after a commit or an abort ------------- *)

\* C21: the quiescent state.  Once the top-level commit or abort has been
\* processed there is no changesStack, and every package and transactional
\* variable still in its hash table is valid and has exactly one state,
\* stamped with a level below 1.
C21_QuiescentState ==
    (~crashed /\ nestLevel = 0) =>
        /\ changesStack = <<>>
        /\ \A o \in Objects :
            FoundIn(packages, o) =>
                /\ Len(StatesIn(packages, o)) = 1
                /\ Head(StatesIn(packages, o)).is_valid
                /\ Head(StatesIn(packages, o)).level < 1

\* C22: an abort removes the states of the aborted level.  At the abort of
\* level L every object listed in the frame of L loses its head state, the
\* state below becoming the head, and afterwards no package and no
\* transactional variable has a state stamped L or higher.
C22_AbortRemovesLevel ==
    [][(AbortStep /\ ~crashed') =>
          \A o \in Objects :
              /\ (/\ ListedAtTop(changesStack, o)
                  /\ FoundIn(packages, o) /\ StatesIn(packages, o) # <<>>
                  /\ FoundIn(packages', o))
                 => StatesIn(packages', o) = Tail(StatesIn(packages, o))
              /\ FoundIn(packages', o)
                 => \A i \in 1..Len(StatesIn(packages', o)) :
                        StatesIn(packages', o)[i].level < nestLevel]_vars

\* C23: a commit detaches dead objects.  An object listed in the frame of
\* the committed level L that the commit leaves with an invalid head state
\* and no state below it is out of its hash table afterwards when L is the
\* top level or the parent level had already changed the object; and after
\* a top-level commit no package and no transactional variable in its hash
\* table has an invalid head state.
C23_CommitDetachesDead ==
    [][CommitStep =>
          \A o \in Objects :
              /\ (/\ ListedAtTop(changesStack, o)
                  /\ FoundIn(packages, o) /\ FoundIn(packages', o)
                  /\ \/ nestLevel = 1
                     \/ /\ Len(StatesIn(packages, o)) >= 2
                        /\ StatesIn(packages, o)[2].level = nestLevel - 1)
                 => ~(/\ Len(StatesIn(packages', o)) = 1
                      /\ ~Head(StatesIn(packages', o)).is_valid)
              /\ (nestLevel = 1 /\ FoundIn(packages', o))
                 => \/ StatesIn(packages', o) = <<>>
                    \/ Head(StatesIn(packages', o)).is_valid]_vars

(* ------------------------ C24: frames never dangle -------------------- *)

\* The objects listed in frame i of the stack.
ListedIn(stack, i) ==
    {stack[i].changedVarsList[k] : k \in 1..Len(stack[i].changedVarsList)}
        \cup {stack[i].changedPacksList[k] :
                  k \in 1..Len(stack[i].changedPacksList)}

\* C24: frames never dangle.  In every reachable state every object listed
\* in a frame of changesStack is in its hash table (a variable's package is
\* in packagesHash and the variable in its transactional hash) and has at
\* least one state.
C24_FramesNeverDangle ==
    ~crashed =>
        \A i \in 1..Len(changesStack) :
            \A o \in ListedIn(changesStack, i) :
                FoundIn(packages, o) /\ StatesIn(packages, o) # <<>>

(* --------------------------- C25: finalize order ---------------------- *)

\* The module after the variables and then the packages of the head frame
\* have been processed, before processChanges looks at what is left.
VariablesThenPackages(m, action) ==
    processList(processList([m EXCEPT !.changesStack = Tail(@)],
                            Head(m.changesStack).changedVarsList, action),
                Head(m.changesStack).changedPacksList, action)

\* A commit or abort event of the host, whatever comes of it.
FinalizeEvent ==
    \/ CommitSubTransaction \/ CommitTransaction
    \/ AbortSubTransaction \/ AbortTransaction

CachedVariable ==
    IF LastVariable.is_transactional
    THEN packages[LastVariable.package].varHashTransact[LastVariable.name]
    ELSE packages[LastVariable.package].varHashRegular[LastVariable.name]

\* C26: the cache is never stale.  In every reachable state LastPackage is
\* NULL or names a package that is in packagesHash with a valid head state,
\* and LastVariable is NULL or refers to a variable that is in its hash
\* table with a valid head state.
C26_CacheNeverStale ==
    ~crashed =>
        /\ LastPackage # NULL =>
               /\ packages[LastPackage].found
               /\ packages[LastPackage].states # <<>>
               /\ Head(packages[LastPackage].states).is_valid
        /\ LastVariable # NoVarRef =>
               /\ packages[LastVariable.package].found
               /\ CachedVariable.found
               /\ CachedVariable.states # <<>>
               /\ Head(CachedVariable.states).is_valid

(* ---------------------- C27: lazy stack construction ------------------ *)

\* C27: the stack is built lazily.  A changesStack comes into existence only
\* in a call that changes a transactional object; it then has as many frames
\* as the nesting level, all empty but the top one, which lists the objects
\* the call registered, each stamped with the level.  A call made while the
\* stack exists adds and removes no frame and leaves the frames below the
\* top one as they were.
C27_LazyStack ==
    [][~crashed' =>
          /\ (changesStack = <<>> /\ changesStack' # <<>>) =>
                 /\ ChangeStep
                 /\ Len(changesStack') = nestLevel
                 /\ \A i \in 2..Len(changesStack') : changesStack'[i] = EmptyFrame
                 /\ ListedIn(changesStack', 1) # {}
                 /\ \A o \in ListedIn(changesStack', 1) :
                        /\ FoundIn(packages', o)
                        /\ Head(StatesIn(packages', o)).level = nestLevel
          /\ (changesStack # <<>> /\ res'.op = "call") =>
                 /\ Len(changesStack') = Len(changesStack)
                 /\ Tail(changesStack') = Tail(changesStack)]_vars

\* The first change of a transaction was made at nesting level 2 and
\* created package p: the stack has two frames, the lower one empty, and
\* the top one lists p, whose only state is stamped 2.
C27_Witness ==
    /\ ~crashed /\ res.op = "call" /\ nestLevel = 2
    /\ Len(changesStack) = 2
    /\ changesStack[2] = EmptyFrame
    /\ changesStack[1].changedPacksList = <<PackObject("p")>>
    /\ Len(packages["p"].states) = 1
    /\ packages["p"].states[1].level = 2

(* ------------------- C28: events without a changesStack --------------- *)

\* C28: the events of a transaction without a stack do nothing.  The start
\* of a subtransaction pushes one empty frame on a changesStack that exists
\* and changes nothing else; without a changesStack it changes nothing, and
\* so does a commit or an abort, of a subtransaction or of the top level:
\* packagesHash, the states of every object and the cache stay as they were.
C28_EventsWithoutStack ==
    [][~crashed' =>
          /\ StartSubTransaction =>
                 /\ changesStack' = IF changesStack # <<>>
                                    THEN <<EmptyFrame>> \o changesStack
                                    ELSE <<>>
                 /\ UNCHANGED <<packagesHash, packages, LastPackage, LastVariable>>
          /\ (FinalizeEvent /\ changesStack = <<>>) =>
                 UNCHANGED <<packagesHash, packages, changesStack,
                             LastPackage, LastVariable>>]_vars

\* A subtransaction has just started in a transaction that has changed
\* nothing yet: package p is there from an earlier transaction, with the
\* cache pointing at it, and there is no changesStack.
C28_Witness ==
    /\ ~crashed /\ res.op = "start_sub" /\ nestLevel = 2
    /\ changesStack = <<>>
    /\ packages["p"].found
    /\ LastPackage = "p"

(* -------------------------- C29: flag exclusivity --------------------- *)

\* C29: the flag is exclusive and fixed.  In every state reached, no name is
\* in both the regular and the transactional hash table of a package, and an
\* entry of the transactional table is transactional and one of the regular
\* table is not; a variable that is in its hash table before and after a
\* step has the same type and the same flag, whatever the step did to its
\* package.  (A regular variable does not outlive the removal of its
\* package; its name is then free for a variable of either kind.)
C29_FlagExclusivity ==
    [][~crashed' =>
          \A p \in Pkgs, n \in Names :
              /\ packages'[p].found =>
                     /\ ~(/\ packages'[p].varHashRegular[n].found
                          /\ packages'[p].varHashTransact[n].found)
                     /\ packages'[p].varHashTransact[n].found
                            => packages'[p].varHashTransact[n].is_transactional
                     /\ packages'[p].varHashRegular[n].found
                            => ~packages'[p].varHashRegular[n].is_transactional
              /\ (/\ packages[p].found /\ packages'[p].found
                  /\ packages[p].varHashTransact[n].found
                  /\ packages'[p].varHashTransact[n].found)
                 => packages'[p].varHashTransact[n].typid
                        = packages[p].varHashTransact[n].typid
              /\ (/\ packages[p].found /\ packages'[p].found
                  /\ packages[p].varHashRegular[n].found
                  /\ packages'[p].varHashRegular[n].found)
                 => packages'[p].varHashRegular[n].typid
                        = packages[p].varHashRegular[n].typid]_vars

\* Package p was removed and created again in the transaction, and its
\* transactional variable x, of type int4, is still in the transactional
\* hash table, marked as removed, with its earlier state below.
C29_Witness ==
    /\ ~crashed /\ res.op = "call" /\ nestLevel = 1
    /\ PackView(Module, "p") = "valid"
    /\ Len(packages["p"].states) = 2
    /\ packages["p"].varHashTransact["x"].found
    /\ packages["p"].varHashTransact["x"].typid = INT4OID
    /\ Len(packages["p"].varHashTransact["x"].states) = 2
    /\ ~packages["p"].varHashTransact["x"].states[1].is_valid
    /\ packages["p"].varHashTransact["x"].states[2].is_valid
    /\ ~packages["p"].varHashRegular["x"].found
    /\ ListedAtTop(changesStack, PackObject("p"))
    /\ ListedAtTop(changesStack, VarObject("p", "x"))

(* ------------------- C30: level stamps and frame listings ------------- *)

\* The frame of level l in a stack with a frame for every level: the head
\* of changesStack is the frame of the current level.
FrameOf(l) == nestLevel - l + 1

\* C30: stamps match listings.  In every reachable state with a changesStack,
\* a package or transactional variable in its hash table has a state stamped
\* with level L, for L from 1 to the nesting level, exactly if it is listed
\* in the frame of level L; so isObjectChangedInCurrentTrans is true of it
\* exactly if the top frame lists it.
C30_StampMatchesFrame ==
    (~crashed /\ changesStack # <<>> /\ Len(changesStack) = nestLevel) =>
        \A o \in Objects :
            FoundIn(packages, o) =>
                /\ \A l \in 1..nestLevel :
                       (\E i \in 1..Len(StatesIn(packages, o)) :
                            StatesIn(packages, o)[i].level = l)
                       <=> o \in ListedIn(changesStack, FrameOf(l))
                /\ StatesIn(packages, o) # <<>> =>
                       (isObjectChangedInCurrentTrans(Module, o)
                            <=> ListedAtTop(changesStack, o))

(* ----------------------- C31: the Assert of a release ----------------- *)

\* C31: the assertion of releaseSavepoint holds.  Whenever a commit calls
\* releaseSavepoint on an object, the head state of the object is stamped
\* with the current nesting level: no step ends with the Assert violated.
C31_ReleaseAssertHolds == ~res.af

(* ------------------- C32: the storage of regular variables ------------ *)

\* C32: the regular storage is released at most once.  In every reachable
\* state inside a transaction, neither remove_package of any package nor
\* remove_packages deletes the memory context of regular variables of a
\* package whose context is already deleted, and every valid package has
\* its context and hash table of regular variables.
C32_RegularStorageReleasedOnce ==
    (~crashed /\ nestLevel >= 1) =>
        /\ \A p \in Pkgs : ~remove_package(Module, p).m.df
        /\ ~remove_packages(Module).df
        /\ \A p \in Pkgs :
               PackView(Module, p) = "valid" => packages[p].hctxRegular

(* ------------------------ C33: no duplicate listings ------------------ *)

\* C33: no duplicate listings.  In every reachable state no package and no
\* transactional variable is listed more than once in one frame of
\* changesStack.
C33_NoDuplicateListings ==
    ~crashed =>
        \A i \in 1..Len(changesStack) :
            \A o \in Objects : Listings(changesStack[i], o) <= 1

(* ------------- C34: the removal of a transactional variable ----------- *)

\* The module after the current level has aborted, and after the current
\* level and every level around it have committed.
AfterAbort(m) ==
    IF nestLevel >= 2 THEN pgvSubTransCallback(m, "ABORT_SUB")
    ELSE pgvTransCallback(m, "ABORT")

AfterCommitOfAll(m) ==
    IF nestLevel >= 2
    THEN pgvTransCallback(pgvSubTransCallback(m, "COMMIT_SUB"), "PRE_COMMIT")
    ELSE pgvTransCallback(m, "PRE_COMMIT")

\* C34: the removal of a transactional variable is transactional.  In every
\* reachable state at a level L where x is a valid transactional variable
\* of a valid package, after remove_variable x is not visible
\* (variable_exists is false and a strict get fails) and is still in its
\* hash table; if L then aborts, x is valid with the value it had when L
\* began; if L and every level around it then commit, x is in no hash table.
C34_RemoveVariableTransactional ==
    (~crashed /\ nestLevel >= 1) =>
        \A p \in Pkgs, n \in Names :
            Visible(p, n).valid =>
                LET r == remove_variable(Module, p, n)
                    a == AfterAbort(r.m)
                    c == AfterCommitOfAll(r.m)
                IN /\ r.err = NoError /\ ~r.m.ub
                   /\ ~variable_exists(r.m, p, n).found
                   /\ variable_get(r.m, p, n, INT4OID, TRUE).err # NoError
                   /\ FoundIn(r.m.packages, VarObject(p, n))
                   /\ ~a.ub
                   /\ snap[nestLevel].view.tvar[p][n].valid
                          => /\ TVarView(a, p, n).valid
                             /\ TVarView(a, p, n).data
                                    = snap[nestLevel].view.tvar[p][n].data
                   /\ ~c.ub
                   /\ ~FoundIn(c.packages, VarObject(p, n))

(* ---------------- C35: the re-creation of a removed package ----------- *)

\* The transactional variables package p holds in module m.
HeldVars(m, p) == {n \in Names : m.packages[p].varHashTransact[n].found}

C36_RemoveAllThenEnd ==
    (~crashed /\ nestLevel >= 1) =>
        LET r == remove_packages(Module)
            c == AfterCommitOfAll(r)
            a == AfterAbort(r)
        IN /\ ~r.ub /\ ~r.df
           /\ get_packages_and_variables(r) = {}
           /\ \A p \in Pkgs : PackView(r, p) # "valid"
           /\ ~c.ub /\ ~c.df
           /\ NoEntries(c)
           /\ ~c.packagesHash /\ c.LastPackage = NULL
           /\ c.LastVariable = NoVarRef /\ c.changesStack = <<>>
           /\ ~a.ub /\ ~a.df
           /\ \A p \in Pkgs :
                  (PackView(Module, p) = "valid"
                      /\ snap[nestLevel].view.pack[p] = "valid")
                      => PackView(a, p) = "valid"

=============================================================================
